---- MODULE Spec2Model ----
(***************************************************************************)
(* LinkShortener: the link store (src/db/schema.ts, src/data/links.ts) and *)
(* the three server actions createLink, editLink and deleteLink            *)
(* (src/app/dashboard/actions.ts), run as concurrent calls.  A call is     *)
(* split at the awaits that touch the store; everything between two store  *)
(* operations is local to the call and belongs to one step.                *)
(*                                                                         *)
(* Strings that the code inspects character by character (slugs, short     *)
(* codes) are sequences of one-character strings.                          *)
(***************************************************************************)
EXTENDS Naturals, Sequences, FiniteSets, TLC

\* ------------------------------------------------------------------ bounds

\* Number of calls of the server actions (each may overlap the others).
MaxCalls == 2
\* editLink / deleteLink are called with an id in 1..MaxId.
MaxId == 3

\* ------------------------------------------------------- program constants

\* actions.ts:56  if (attempts > 10)
MaxAttempts == 10
\* actions.ts:13 and :84  .max(50, ...)
MaxSlugLen == 50
\* actions.ts:83  .min(1, ...)
MinEditSlugLen == 1
\* actions.ts:32  .substring(2, 8)
SubFrom == 2
SubTo == 8

\* -------------------------------------------------------------- characters

Digits == {"0", "1", "2", "3", "4", "5", "6", "7", "8", "9"}
Lower == {"a", "b", "c", "d", "e", "f", "g", "h", "i", "j", "k", "l", "m",
          "n", "o", "p", "q", "r", "s", "t", "u", "v", "w", "x", "y", "z"}
Upper == {"A", "B", "C", "D", "E", "F", "G", "H", "I", "J", "K", "L", "M",
          "N", "O", "P", "Q", "R", "S", "T", "U", "V", "W", "X", "Y", "Z"}

\* The character class of the slug regexes: [a-zA-Z0-9_-]
SlugChars == Lower \cup Upper \cup Digits \cup {"_", "-"}

\* JavaScript's undefined, as a value no string of characters equals.
Undefined == <<"undefined">>

\* String.prototype.substring(from, to) for 0 <= from <= to (0-based, to exclusive).
Substring(s, from, to) ==
    LET hi == IF to < Len(s) THEN to ELSE Len(s)
        lo == IF from < hi THEN from ELSE hi
    IN  SubSeq(s, lo + 1, hi)

\* ------------------------------------------------------------------ inputs

Users == {"u1", "u2"}
\* auth() resolves to userId = null when nobody is signed in.
NoUser == "null"
Callers == Users \cup {NoUser}

UrlA == "https://example.com/a"
UrlB == "https://example.com/b"
BadUrl == "not a url"
\* z.string().url(): the strings that parse as an absolute URL.
ValidUrls == {UrlA, UrlB}
InputUrls == {UrlA, BadUrl}

\* 50 characters, of every class the regex allows.
Slug50 == [i \in 1..50 |-> CASE i = 1 -> "a" [] i = 2 -> "-" [] i = 3 -> "Z"
                             [] i = 4 -> "_" [] i = 5 -> "9" [] OTHER -> "x"]
Slug51 == [i \in 1..51 |-> "x"]
SlugBang == <<"a", "!">>
Code6 == <<"a", "b", "c", "1", "2", "3">>

CreateSlugs == {Undefined, <<>>, Code6, Slug50, SlugBang, Slug51}
EditSlugs == {<<>>, Code6, Slug50, SlugBang, Slug51}

\* Math.random() by the digits of its base-36 expansion after "0.":
\* 0 has none, and a typical value has more than six.
RandomFractions == {<<>>, <<"a", "b", "c", "1", "2", "3", "4">>}

\* ------------------------------------------------------ code generation

\* Number.prototype.toString(36) of a value in [0, 1).
ToString36(fraction) ==
    IF fraction = <<>> THEN <<"0">> ELSE <<"0", ".">> \o fraction

\* generateShortCode(): Math.random().toString(36).substring(2, 8)
generateShortCode(fraction) == Substring(ToString36(fraction), SubFrom, SubTo)

\* The bound one too low: if (attempts >= 10)
AttemptsExceeded_OffByOne(attempts) == attempts >= MaxAttempts

\* The bound one too high: if (attempts > 11)
AttemptsExceeded_OneMore(attempts) == attempts > MaxAttempts + 1

\* if (attempts > 10)
AttemptsExceeded(attempts) == attempts > MaxAttempts

\* -------------------------------------------------------------- validation

MsgUrl == "Please enter a valid URL"
MsgMax == "Slug must be 50 characters or fewer"
MsgChars == "Slug may only contain letters, numbers, hyphens, and underscores"
MsgRequired == "Short code is required"

IsUrl(url) == url \in ValidUrls

\* /^[a-zA-Z0-9_-]*$/ and, for a non-empty string, /^[a-zA-Z0-9_-]+$/
AllSlugChars(s) == \A i \in 1..Len(s) : s[i] \in SlugChars

\* The url left unchecked: url: z.string()
UrlIssues_Unchecked(url) == <<>>

\* url: z.string().url('Please enter a valid URL')
UrlIssues(url) == IF IsUrl(url) THEN <<>> ELSE <<MsgUrl>>

\* The hyphen left out of the character class: /^[a-zA-Z0-9_]*$/
CreateSlugIssues_NoHyphen(slug) ==
    IF slug = Undefined THEN <<>>
    ELSE (IF Len(slug) > MaxSlugLen THEN <<MsgMax>> ELSE <<>>)
         \o (IF \A i \in 1..Len(slug) : slug[i] \in SlugChars \ {"-"}
             THEN <<>> ELSE <<MsgChars>>)

\* The short code schema of editLink used: .min(1).max(50).regex(/^...+$/).optional()
CreateSlugIssues_MinOne(slug) ==
    IF slug = Undefined THEN <<>>
    ELSE (IF Len(slug) < MinEditSlugLen THEN <<MsgRequired>> ELSE <<>>)
         \o (IF Len(slug) > MaxSlugLen THEN <<MsgMax>> ELSE <<>>)
         \o (IF Len(slug) >= 1 /\ AllSlugChars(slug) THEN <<>> ELSE <<MsgChars>>)

\* createLinkSchema.slug: .max(50).regex(/^...*$/).optional()
CreateSlugIssues(slug) ==
    IF slug = Undefined THEN <<>>
    ELSE (IF Len(slug) > MaxSlugLen THEN <<MsgMax>> ELSE <<>>)
         \o (IF AllSlugChars(slug) THEN <<>> ELSE <<MsgChars>>)

\* createLinkSchema.slug: .transform((val) => (val === '' ? undefined : val))
SlugTransform(slug) == IF slug = <<>> THEN Undefined ELSE slug

\* The schema of createLink used for the short code: no .min(1), /^...*$/
EditSlugIssues_NoMin(slug) ==
    (IF Len(slug) > MaxSlugLen THEN <<MsgMax>> ELSE <<>>)
    \o (IF AllSlugChars(slug) THEN <<>> ELSE <<MsgChars>>)

\* editLinkSchema.slug: .min(1).max(50).regex(/^...+$/)
EditSlugIssues(slug) ==
    (IF Len(slug) < MinEditSlugLen THEN <<MsgRequired>> ELSE <<>>)
    \o (IF Len(slug) > MaxSlugLen THEN <<MsgMax>> ELSE <<>>)
    \o (IF Len(slug) >= 1 /\ AllSlugChars(slug) THEN <<>> ELSE <<MsgChars>>)

\* The sign-in test left out.
Unauthenticated_Unchecked(userId) == FALSE

\* if (!userId)
Unauthenticated(userId) == userId = NoUser

\* if (!shortCode)
Falsy(s) == s = Undefined \/ s = <<>>

\* ----------------------------------------------------------------- results

ErrUnauthorized == "Unauthorized"
ErrExhausted == "Failed to generate a unique short code. Please try again."
ErrTaken == "That slug is already taken. Please choose a different one."
ErrCreate == "Failed to create link. Please try again."
ErrNotFound == "Link not found."
ErrUpdate == "Failed to update link. Please try again."
ErrDelete == "Failed to delete link. Please try again."

\* error: string
StringError(m) == [type |-> "string", message |-> m, url |-> <<>>, slug |-> <<>>]
\* error: parsed.error.format(), the messages keyed by field
FormattedError(u, s) == [type |-> "formatted", message |-> "", url |-> u, slug |-> s]
NoError == [type |-> "none", message |-> "", url |-> <<>>, slug |-> <<>>]

\* { success: true, data }: data is the set holding the row, empty for undefined.
Success(data) == [success |-> TRUE, error |-> NoError, data |-> data]
\* { success: false, error }
Failure(error) == [success |-> FALSE, error |-> error, data |-> {}]
\* The result of a call that has not returned.
Pending == [success |-> FALSE, error |-> NoError, data |-> {}]

\* --------------------------------------------------------------- the store

VARIABLES
    links,    \* the rows of table links
    nextId,   \* crypto.randomUUID(): the ids are distinct, one per insert
    clock,    \* the time of the latest write
    calls     \* the calls of the server actions, by call number

vars == <<links, nextId, clock, calls>>

Calls == 1..MaxCalls
InputIds == 1..MaxId

Row(id, userId, shortCode, url, t) ==
    [id |-> id, userId |-> userId, shortCode |-> shortCode, url |-> url,
     createdAt |-> t, updatedAt |-> t]

\* A plain index in place of the unique one: nothing is rejected.
UniqueViolation_PlainIndex(rows, shortCode, exceptId) == FALSE

\* uniqueIndex('links_short_code_idx').on(table.shortCode): a statement that
\* would leave two rows with one short code is rejected.
UniqueViolation(rows, shortCode, exceptId) ==
    \E l \in rows : l.shortCode = shortCode /\ l.id # exceptId

\* isShortCodeTaken: select id where short_code = shortCode limit 1
isShortCodeTaken(rows, shortCode) ==
    {l \in rows : l.shortCode = shortCode} # {}

\* eq in place of ne: only the edited row itself is looked at.
isShortCodeTakenExcluding_SameRow(rows, shortCode, excludeId) ==
    {l \in rows : l.shortCode = shortCode /\ l.id = excludeId} # {}

\* isShortCodeTakenExcluding: ... where short_code = shortCode and id <> excludeId
isShortCodeTakenExcluding(rows, shortCode, excludeId) ==
    {l \in rows : l.shortCode = shortCode /\ l.id # excludeId} # {}

\* getLinkById: the rows with that id, at most one (id is the primary key).
getLinkById(rows, id) == {l \in rows : l.id = id}

\* The id not generated per row: id: 1 in place of crypto.randomUUID()
InsertedRow_FixedId(id, userId, url, shortCode, t) == Row(1, userId, shortCode, url, t)

\* insertLink: values({ id: crypto.randomUUID(), ...data }).returning()
InsertedRow(id, userId, url, shortCode, t) == Row(id, userId, shortCode, url, t)

\* The short code left out of the update: set({ url, updatedAt: new Date() })
UpdatedRow_KeepsCode(l, url, shortCode, t) ==
    [l EXCEPT !.url = url, !.updatedAt = t]

\* updateLinkById: set({ ...data, updatedAt: new Date() }).where(eq(links.id, id))
UpdatedRow(l, url, shortCode, t) ==
    [l EXCEPT !.url = url, !.shortCode = shortCode, !.updatedAt = t]

\* The where clause left out: update(links).set({ ... }).returning()
updateLinkById_NoWhere(rows, id, url, shortCode, t) ==
    {UpdatedRow(l, url, shortCode, t) : l \in rows}

updateLinkById(rows, id, url, shortCode, t) ==
    {IF l.id = id THEN UpdatedRow(l, url, shortCode, t) ELSE l : l \in rows}

\* deleteLinkById: delete where id = id
deleteLinkById(rows, id) == {l \in rows : l.id # id}

\* The where clause left out: select().from(links).limit(1)
getLinkByShortCode_NoWhere(rows, shortCode) == rows

\* getLinkByShortCode: select where short_code = shortCode, limit(1). The rows
\* the where clause keeps; the statement has no order, so limit(1) hands back
\* any one of them, and undefined when there is none.
getLinkByShortCode(rows, shortCode) == {l \in rows : l.shortCode = shortCode}

\* The owner test left out: if (!existing)
EditNotFound_NoOwnerTest(existing, userId) == existing = {}

\* if (!existing || existing.userId !== userId), in editLink
EditNotFound(existing, userId) ==
    existing = {} \/ \E l \in existing : l.userId # userId

\* The owner test left out: if (!existing)
DeleteNotFound_NoOwnerTest(existing, userId) == existing = {}

\* if (!existing || existing.userId !== userId), in deleteLink
DeleteNotFound(existing, userId) ==
    existing = {} \/ \E l \in existing : l.userId # userId

\* ------------------------------------------------------------ the redirect

\* The 302 of both NextResponse.redirect calls of the route handler.
StatusFound == 302

\* The characters URLSearchParams writes as they are.
FormSafe == Digits \cup Lower \cup Upper \cup {"*", "-", ".", "_"}

\* One character of a query value as URLSearchParams serialises it: a space
\* as "+", every other character outside FormSafe as its percent-encoded
\* byte. Of those the inputs of this model hold "!" (0x21) only.
FormEncodeChar(c) ==
    IF c \in FormSafe THEN <<c>>
    ELSE IF c = " " THEN <<"+">>
    ELSE IF c = "!" THEN <<"%", "2", "1">>
    ELSE <<"%", "2", "5">>

RECURSIVE FormEncode(_)
FormEncode(s) ==
    IF s = <<>> THEN <<>> ELSE FormEncodeChar(Head(s)) \o FormEncode(Tail(s))

NoResponse == [status |-> 0, location |-> "", query |-> <<>>]

\* NextResponse.redirect(link.url, { status: 302 })
Redirect(url) == [status |-> StatusFound, location |-> url, query |-> <<>>]

\* new URL('/link-not-found', _request.url); searchParams.set('code', shortcode);
\* NextResponse.redirect(notFoundUrl, { status: 302 })
NotFoundRedirect(shortcode) ==
    [status |-> StatusFound, location |-> "/link-not-found",
     query |-> <<"c", "o", "d", "e", "=">> \o FormEncode(shortcode)]

\* --------------------------------------------------------------- the calls

(***************************************************************************)
(* A call record holds the call's position (pc), its input, its local      *)
(* variables (shortCode, attempts) and its result, and a record of what    *)
(* happened to it, which the code does not read:                           *)
(*   storeOps       the store operations issued, failed ones included      *)
(*   writes         the rows inserted, updated or deleted                  *)
(*   faulted        a store operation or the revalidation failed           *)
(*   conflict       the unique index rejected the call's statement         *)
(*   collisions     the generated codes that were in the store when checked*)
(*   precheck       the store at the last uniqueness check: held / free    *)
(*   atCall         the store when the call began: for createLink whether  *)
(*                  the requested code was held / free, for editLink and   *)
(*                  deleteLink whether the id was absent / other / own     *)
(*   loaded         what the load by id found: absent / other / own        *)
(*   prior          the short code the row held before the call's update   *)
(*                  or delete changed it                                    *)
(* A call of the redirect route keeps the code asked for in shortCode and  *)
(* what it answered in response.                                           *)
(***************************************************************************)
IdleCall ==
    [pc |-> "idle", kind |-> "none", userId |-> NoUser, id |-> 0, url |-> "",
     slug |-> Undefined, shortCode |-> Undefined, attempts |-> 0,
     result |-> Pending, storeOps |-> 0, writes |-> 0, faulted |-> FALSE,
     conflict |-> FALSE, collisions |-> 0, precheck |-> "none",
     atCall |-> "none", loaded |-> "none", prior |-> Undefined,
     response |-> NoResponse]

\* return result
Return(c, result) == [c EXCEPT !.pc = "done", !.result = result]

\* A rejected await outside every try block: the call throws.
Throw(c) == [c EXCEPT !.pc = "thrown", !.faulted = TRUE]

Held(rows, shortCode, exceptId) ==
    \E l \in rows : l.shortCode = shortCode /\ l.id # exceptId

Ownership(rows, id, userId) ==
    IF \A l \in rows : l.id # id THEN "absent"
    ELSE IF \E l \in rows : l.id = id /\ l.userId = userId THEN "own"
    ELSE "other"

\* Calls begin in the order of their numbers (they are interchangeable).
MayBegin(p) ==
    /\ calls[p].pc = "idle"
    /\ \A q \in Calls : q < p => calls[q].pc # "idle"

\* new Date() / now(): not before the latest write.
Times == {clock, clock + 1}

\* The store before any call: empty, or holding every code the generator
\* can produce here (two createLink calls without a slug leave it so).
EmptyStore == {}
SeededStore ==
    {Row(1, "u1", generateShortCode(<<>>), UrlB, 0),
     Row(2, "u2", Code6, UrlB, 0)}

Init ==
    /\ links \in {EmptyStore, SeededStore}
    /\ nextId = Cardinality(links) + 1
    /\ clock = 0
    /\ calls = [p \in Calls |-> IdleCall]

\* ------------------------------------------------------------- createLink

\* createLink up to its first store operation: auth(), safeParse, if (!shortCode)
CreateLink(p) ==
    /\ MayBegin(p)
    /\ \E caller \in Callers, url \in InputUrls, slug \in CreateSlugs :
        LET parsed == SlugTransform(slug)
            c == [calls[p] EXCEPT !.kind = "create", !.userId = caller,
                                  !.url = url, !.slug = slug,
                                  !.atCall = IF Falsy(parsed) THEN "none"
                                             ELSE IF Held(links, parsed, 0) THEN "held"
                                             ELSE "free"]
            urlIssues == UrlIssues(url)
            slugIssues == CreateSlugIssues(slug)
        IN  calls' = [calls EXCEPT ![p] =
                IF Unauthenticated(caller)
                THEN Return(c, Failure(StringError(ErrUnauthorized)))
                ELSE IF urlIssues # <<>> \/ slugIssues # <<>>
                THEN Return(c, Failure(FormattedError(urlIssues, slugIssues)))
                ELSE IF Falsy(parsed)
                THEN [c EXCEPT !.pc = "generate", !.shortCode = parsed]
                ELSE [c EXCEPT !.pc = "check", !.shortCode = parsed]]
    /\ UNCHANGED <<links, nextId, clock>>

\* do { shortCode = generateShortCode(); attempts++; if (attempts > 10) return ... }
GenerateShortCode(p) ==
    /\ calls[p].pc = "generate"
    /\ \E fraction \in RandomFractions :
        LET c == [calls[p] EXCEPT !.shortCode = generateShortCode(fraction),
                                  !.attempts = @ + 1]
        IN  calls' = [calls EXCEPT ![p] =
                IF AttemptsExceeded(c.attempts)
                THEN Return(c, Failure(StringError(ErrExhausted)))
                ELSE [c EXCEPT !.pc = "checkGenerated"]]
    /\ UNCHANGED <<links, nextId, clock>>

\* ... while (await isShortCodeTaken(shortCode))
CreateCheckGenerated(p) ==
    /\ calls[p].pc = "checkGenerated"
    /\ \/ calls' = [calls EXCEPT ![p] = Throw([@ EXCEPT !.storeOps = @ + 1])]
       \/ LET held == Held(links, calls[p].shortCode, 0)
              c == [calls[p] EXCEPT !.storeOps = @ + 1,
                                    !.precheck = IF held THEN "held" ELSE "free",
                                    !.collisions = IF held THEN @ + 1 ELSE @]
          IN  calls' = [calls EXCEPT ![p] =
                  IF isShortCodeTaken(links, c.shortCode)
                  THEN [c EXCEPT !.pc = "generate"]
                  ELSE [c EXCEPT !.pc = "insert"]]
    /\ UNCHANGED <<links, nextId, clock>>

\* const taken = await isShortCodeTaken(shortCode); if (taken) return ...
CreateCheckRequested(p) ==
    /\ calls[p].pc = "check"
    /\ \/ calls' = [calls EXCEPT ![p] = Throw([@ EXCEPT !.storeOps = @ + 1])]
       \/ LET held == Held(links, calls[p].shortCode, 0)
              c == [calls[p] EXCEPT !.storeOps = @ + 1,
                                    !.precheck = IF held THEN "held" ELSE "free"]
          IN  calls' = [calls EXCEPT ![p] =
                  IF isShortCodeTaken(links, c.shortCode)
                  THEN Return(c, Failure(StringError(ErrTaken)))
                  ELSE [c EXCEPT !.pc = "insert"]]
    /\ UNCHANGED <<links, nextId, clock>>

\* try { insertLink(...); revalidatePath(...); return success } catch { return failure }
CreateInsert(p) ==
    /\ calls[p].pc = "insert"
    /\ LET c == [calls[p] EXCEPT !.storeOps = @ + 1] IN
       \/ /\ calls' = [calls EXCEPT ![p] =
                Return([c EXCEPT !.faulted = TRUE], Failure(StringError(ErrCreate)))]
          /\ UNCHANGED <<links, nextId, clock>>
       \/ /\ UniqueViolation(links, c.shortCode, nextId)
          /\ calls' = [calls EXCEPT ![p] =
                Return([c EXCEPT !.conflict = TRUE], Failure(StringError(ErrCreate)))]
          /\ UNCHANGED <<links, nextId, clock>>
       \/ /\ ~UniqueViolation(links, c.shortCode, nextId)
          /\ \E t \in Times, revalidated \in BOOLEAN :
                LET link == InsertedRow(nextId, c.userId, c.url, c.shortCode, t)
                    w == [c EXCEPT !.writes = @ + 1]
                IN  /\ links' = links \cup {link}
                    /\ nextId' = nextId + 1
                    /\ clock' = t
                    /\ calls' = [calls EXCEPT ![p] =
                          IF revalidated
                          THEN Return(w, Success({link}))
                          ELSE Return([w EXCEPT !.faulted = TRUE],
                                      Failure(StringError(ErrCreate)))]

\* --------------------------------------------------------------- editLink

\* editLink up to its first store operation: auth(), safeParse
EditLink(p) ==
    /\ MayBegin(p)
    /\ \E caller \in Callers, id \in InputIds, url \in InputUrls, slug \in EditSlugs :
        LET c == [calls[p] EXCEPT !.kind = "edit", !.userId = caller, !.id = id,
                                  !.url = url, !.slug = slug,
                                  !.atCall = Ownership(links, id, caller)]
            urlIssues == UrlIssues(url)
            slugIssues == EditSlugIssues(slug)
        IN  calls' = [calls EXCEPT ![p] =
                IF Unauthenticated(caller)
                THEN Return(c, Failure(StringError(ErrUnauthorized)))
                ELSE IF urlIssues # <<>> \/ slugIssues # <<>>
                THEN Return(c, Failure(FormattedError(urlIssues, slugIssues)))
                ELSE [c EXCEPT !.pc = "load"]]
    /\ UNCHANGED <<links, nextId, clock>>

\* const existing = await getLinkById(input.id); the ownership test;
\* if (slug !== existing.shortCode)
EditLoad(p) ==
    /\ calls[p].kind = "edit"
    /\ calls[p].pc = "load"
    /\ \/ calls' = [calls EXCEPT ![p] = Throw([@ EXCEPT !.storeOps = @ + 1])]
       \/ LET existing == getLinkById(links, calls[p].id)
              c == [calls[p] EXCEPT !.storeOps = @ + 1,
                                    !.loaded = Ownership(links, calls[p].id,
                                                         calls[p].userId)]
          IN  calls' = [calls EXCEPT ![p] =
                  IF EditNotFound(existing, c.userId)
                  THEN Return(c, Failure(StringError(ErrNotFound)))
                  ELSE IF \E l \in existing : c.slug # l.shortCode
                  THEN [c EXCEPT !.pc = "checkExcluding"]
                  ELSE [c EXCEPT !.pc = "update"]]
    /\ UNCHANGED <<links, nextId, clock>>

\* const taken = await isShortCodeTakenExcluding(slug, input.id); if (taken) return ...
EditCheck(p) ==
    /\ calls[p].pc = "checkExcluding"
    /\ \/ calls' = [calls EXCEPT ![p] = Throw([@ EXCEPT !.storeOps = @ + 1])]
       \/ LET held == Held(links, calls[p].slug, calls[p].id)
              c == [calls[p] EXCEPT !.storeOps = @ + 1,
                                    !.precheck = IF held THEN "held" ELSE "free"]
          IN  calls' = [calls EXCEPT ![p] =
                  IF isShortCodeTakenExcluding(links, c.slug, c.id)
                  THEN Return(c, Failure(StringError(ErrTaken)))
                  ELSE [c EXCEPT !.pc = "update"]]
    /\ UNCHANGED <<links, nextId, clock>>

\* try { updateLinkById(...); revalidatePath(...); return success } catch { return failure }
EditUpdate(p) ==
    /\ calls[p].pc = "update"
    /\ LET c == [calls[p] EXCEPT !.storeOps = @ + 1]
           target == getLinkById(links, c.id)
       IN
       \/ /\ calls' = [calls EXCEPT ![p] =
                Return([c EXCEPT !.faulted = TRUE], Failure(StringError(ErrUpdate)))]
          /\ UNCHANGED <<links, nextId, clock>>
       \/ /\ target # {}
          /\ UniqueViolation(links, c.slug, c.id)
          /\ calls' = [calls EXCEPT ![p] =
                Return([c EXCEPT !.conflict = TRUE], Failure(StringError(ErrUpdate)))]
          /\ UNCHANGED <<links, nextId, clock>>
       \/ /\ target = {} \/ ~UniqueViolation(links, c.slug, c.id)
          /\ \E t \in Times, revalidated \in BOOLEAN :
                LET rows == updateLinkById(links, c.id, c.url, c.slug, t)
                    link == getLinkById(rows, c.id)
                    w == [c EXCEPT !.writes = @ + Cardinality(link),
                                   !.prior = IF target = {} THEN Undefined
                                             ELSE (CHOOSE l \in target : TRUE).shortCode]
                IN  /\ links' = rows
                    /\ clock' = t
                    /\ calls' = [calls EXCEPT ![p] =
                          IF revalidated
                          THEN Return(w, Success(link))
                          ELSE Return([w EXCEPT !.faulted = TRUE],
                                      Failure(StringError(ErrUpdate)))]
          /\ UNCHANGED nextId

\* ------------------------------------------------------------- deleteLink

\* deleteLink up to its first store operation: auth()
DeleteLink(p) ==
    /\ MayBegin(p)
    /\ \E caller \in Callers, id \in InputIds :
        LET c == [calls[p] EXCEPT !.kind = "delete", !.userId = caller, !.id = id,
                                  !.atCall = Ownership(links, id, caller)]
        IN  calls' = [calls EXCEPT ![p] =
                IF Unauthenticated(caller)
                THEN Return(c, Failure(StringError(ErrUnauthorized)))
                ELSE [c EXCEPT !.pc = "load"]]
    /\ UNCHANGED <<links, nextId, clock>>

\* const existing = await getLinkById(input.id); the ownership test
DeleteLoad(p) ==
    /\ calls[p].kind = "delete"
    /\ calls[p].pc = "load"
    /\ \/ calls' = [calls EXCEPT ![p] = Throw([@ EXCEPT !.storeOps = @ + 1])]
       \/ LET existing == getLinkById(links, calls[p].id)
              c == [calls[p] EXCEPT !.storeOps = @ + 1,
                                    !.loaded = Ownership(links, calls[p].id,
                                                         calls[p].userId)]
          IN  calls' = [calls EXCEPT ![p] =
                  IF DeleteNotFound(existing, c.userId)
                  THEN Return(c, Failure(StringError(ErrNotFound)))
                  ELSE [c EXCEPT !.pc = "delete"]]
    /\ UNCHANGED <<links, nextId, clock>>

\* try { deleteLinkById(...); revalidatePath(...); return success } catch { return failure }
DeleteRow(p) ==
    /\ calls[p].pc = "delete"
    /\ LET c == [calls[p] EXCEPT !.storeOps = @ + 1] IN
       \/ /\ calls' = [calls EXCEPT ![p] =
                Return([c EXCEPT !.faulted = TRUE], Failure(StringError(ErrDelete)))]
          /\ UNCHANGED links
       \/ \E revalidated \in BOOLEAN :
            LET rows == deleteLinkById(links, c.id)
                gone == links \ rows
                w == [c EXCEPT !.writes = @ + Cardinality(gone),
                               !.prior = IF gone = {} THEN Undefined
                                         ELSE (CHOOSE l \in gone : TRUE).shortCode]
            IN  /\ links' = rows
                /\ calls' = [calls EXCEPT ![p] =
                      IF revalidated
                      THEN Return(w, Success({}))
                      ELSE Return([w EXCEPT !.faulted = TRUE],
                                  Failure(StringError(ErrDelete)))]
    /\ UNCHANGED <<nextId, clock>>

\* ---------------------------------------------------- the redirect route

\* The codes asked of the redirect route.
ResolveCodes == {Code6, Slug50, SlugBang}

\* The lookup made to record the visit on the row it finds.
GET_RecordsVisit(p) ==
    /\ MayBegin(p)
    /\ \E shortcode \in ResolveCodes :
        LET c == [calls[p] EXCEPT !.kind = "resolve", !.shortCode = shortcode,
                                  !.storeOps = @ + 1]
            found == getLinkByShortCode(links, shortcode)
        IN  \/ /\ calls' = [calls EXCEPT ![p] = Throw(c)]
               /\ UNCHANGED links
            \/ /\ found = {}
               /\ calls' = [calls EXCEPT ![p] =
                     [c EXCEPT !.pc = "done",
                               !.response = NotFoundRedirect(shortcode)]]
               /\ UNCHANGED links
            \/ \E link \in found :
                  /\ calls' = [calls EXCEPT ![p] =
                        [c EXCEPT !.pc = "done", !.response = Redirect(link.url)]]
                  /\ links' = (links \ {link})
                                \cup {[link EXCEPT !.updatedAt = clock + 1]}
    /\ UNCHANGED <<nextId, clock>>

\* GET /[shortcode]: const link = await getLinkByShortCode(shortcode), outside
\* every try block; then one of the two redirects.
GET(p) ==
    /\ MayBegin(p)
    /\ \E shortcode \in ResolveCodes :
        LET c == [calls[p] EXCEPT !.kind = "resolve", !.shortCode = shortcode,
                                  !.storeOps = @ + 1]
            found == getLinkByShortCode(links, shortcode)
        IN  \/ calls' = [calls EXCEPT ![p] = Throw(c)]
            \/ /\ found = {}
               /\ calls' = [calls EXCEPT ![p] =
                     [c EXCEPT !.pc = "done",
                               !.response = NotFoundRedirect(shortcode)]]
            \/ \E link \in found :
                  calls' = [calls EXCEPT ![p] =
                     [c EXCEPT !.pc = "done", !.response = Redirect(link.url)]]
    /\ UNCHANGED <<links, nextId, clock>>

\* ---------------------------------------------------------- specification

Next ==
    \E p \in Calls :
        \/ CreateLink(p)
        \/ GenerateShortCode(p)
        \/ CreateCheckGenerated(p)
        \/ CreateCheckRequested(p)
        \/ CreateInsert(p)
        \/ EditLink(p)
        \/ EditLoad(p)
        \/ EditCheck(p)
        \/ EditUpdate(p)
        \/ DeleteLink(p)
        \/ DeleteLoad(p)
        \/ DeleteRow(p)
        \/ GET(p)

Spec == Init /\ [][Next]_vars

TypeOK ==
    /\ \A l \in links : l.id \in 1..(nextId - 1) /\ l.userId \in Users
    /\ \A p \in Calls : calls[p].pc \in {"idle", "generate", "checkGenerated",
            "check", "insert", "load", "checkExcluding", "update", "delete",
            "done", "thrown"}

\* ------------------------------------------------------------------ claims

Unauthorized == Failure(StringError(ErrUnauthorized))
NotFound == Failure(StringError(ErrNotFound))
CodeTaken == Failure(StringError(ErrTaken))
AllocationExhausted == Failure(StringError(ErrExhausted))

Requested(p) == calls[p].kind = "create" /\ calls[p].atCall # "none"
Generated(p) == calls[p].kind = "create" /\ calls[p].pc # "idle" /\ calls[p].atCall = "none"
Authenticated(p) == calls[p].kind # "none" /\ calls[p].userId \in Users

\* C1: in every reachable state no two rows of the store have the same
\* shortCode, whatever createLink, editLink and deleteLink calls interleave.
C1_UniqueShortCodes ==
    \A l1 \in links, l2 \in links : l1.shortCode = l2.shortCode => l1 = l2

\* Two createLink calls asked for one code, both found it free, one inserted
\* it and the unique index rejected the other.
C1_Witness ==
    \E p \in Calls, q \in Calls :
        /\ p # q
        /\ Requested(p) /\ calls[p].result.success
        /\ Requested(q) /\ calls[q].conflict /\ calls[q].precheck = "free"
        /\ calls[q].shortCode = calls[p].shortCode
        /\ \E l \in links : l.shortCode = calls[p].shortCode

\* C2: a createLink call whose requested code passed the uniqueness check
\* and whose insert the unique index then rejected returns the "already
\* taken" failure of the check.
C2_RejectedInsertIsCodeTaken ==
    \A p \in Calls :
        (Requested(p) /\ calls[p].pc = "done" /\ calls[p].precheck = "free"
            /\ calls[p].conflict)
        => calls[p].result = CodeTaken

\* C3: a createLink, editLink or deleteLink call in which a store operation
\* (or the revalidation) failed has returned a result with success = false;
\* it has not thrown.
C3_FaultsAreReturned ==
    \A p \in Calls :
        (calls[p].kind \in {"create", "edit", "delete"} /\ calls[p].faulted)
        => calls[p].pc = "done" /\ ~calls[p].result.success

\* C4: a createLink, editLink or deleteLink call without a userId has returned
\* Unauthorized and has issued no store operation, whatever its input.
C4_UnauthorizedBeforeStore ==
    \A p \in Calls :
        (calls[p].kind \in {"create", "edit", "delete"} /\ calls[p].userId = NoUser)
        => /\ calls[p].pc = "done"
           /\ calls[p].result = Unauthorized
           /\ calls[p].storeOps = 0
           /\ calls[p].writes = 0

\* An unauthorized createLink with an invalid URL and slug beside an
\* unauthorized deleteLink of a row that exists.
C4_Witness ==
    \E p \in Calls, q \in Calls :
        /\ calls[p].kind = "create" /\ calls[p].userId = NoUser
        /\ calls[p].url = BadUrl /\ calls[p].slug = SlugBang
        /\ calls[p].pc = "done"
        /\ calls[q].kind \in {"edit", "delete"} /\ calls[q].userId = NoUser
        /\ calls[q].pc = "done"
        /\ \E l \in links : l.id = calls[q].id

\* C5 as written: an authenticated editLink or deleteLink whose id was
\* absent from the store, or owned by another user, when it was called
\* returns NotFound.
C5_NotFoundAsWritten ==
    \A p \in Calls :
        (calls[p].kind \in {"edit", "delete"} /\ Authenticated(p)
            /\ calls[p].pc = "done" /\ calls[p].atCall \in {"absent", "other"})
        => calls[p].result = NotFound

\* C5 amended: an editLink (its URL and slug valid) or deleteLink whose load
\* by id finds no row, or a row owned by another user, returns NotFound, the
\* same result in the two cases, and writes nothing.
C5_NotFoundAtLoad ==
    \A p \in Calls :
        calls[p].loaded \in {"absent", "other"}
        => /\ calls[p].pc = "done"
           /\ calls[p].result = NotFound
           /\ calls[p].writes = 0

\* An editLink of an absent id beside a deleteLink of another user's row.
C5_Witness ==
    \E p \in Calls, q \in Calls :
        /\ calls[p].kind = "edit" /\ calls[p].loaded = "absent"
        /\ calls[q].kind = "delete" /\ calls[q].loaded = "other"
        /\ calls[p].result = calls[q].result

\* C6: a row changes (shortCode, url, updatedAt) or leaves the store only in
\* the update or delete step of an editLink or deleteLink call made for that
\* row's id by the row's owner; no call of another user changes it.
C6_OnlyOwnerMutates ==
    [][\A l \in links :
          l \notin links'
          => \E p \in Calls :
                /\ calls[p].pc \in {"update", "delete"}
                /\ calls'[p].pc = "done"
                /\ calls[p].id = l.id
                /\ calls[p].userId = l.userId]_vars

\* The owner's editLink has rewritten a row that another user's call, made
\* for the same id, was refused.
C6_Witness ==
    \E p \in Calls, q \in Calls :
        /\ calls[p].kind = "edit" /\ calls[p].result.success
        /\ calls[p].writes = 1
        /\ calls[q].kind \in {"edit", "delete"} /\ Authenticated(q)
        /\ calls[q].id = calls[p].id /\ calls[q].userId # calls[p].userId
        /\ calls[q].result = NotFound
        /\ \E l \in links : l.id = calls[p].id /\ l.userId = calls[p].userId
                             /\ l.shortCode = calls[p].slug

\* C7: when the code a createLink call asks for is in the store at its
\* uniqueness check, or the code an editLink call asks for is held by a row
\* other than the edited one at its check, the call returns CodeTaken and
\* has written nothing.
C7_HeldCodeIsCodeTaken ==
    \A p \in Calls :
        ((Requested(p) \/ calls[p].kind = "edit") /\ calls[p].precheck = "held")
        => /\ calls[p].pc = "done"
           /\ calls[p].result = CodeTaken
           /\ calls[p].writes = 0

\* A createLink and an editLink that both asked for a code another row holds.
C7_Witness ==
    \E p \in Calls, q \in Calls :
        /\ Requested(p) /\ calls[p].precheck = "held" /\ calls[p].pc = "done"
        /\ Held(links, calls[p].shortCode, 0)
        /\ calls[q].kind = "edit" /\ calls[q].precheck = "held" /\ calls[q].pc = "done"
        /\ Held(links, calls[q].slug, calls[q].id)
        /\ \E l \in links : l.id = calls[q].id /\ l.userId = calls[q].userId

\* The pattern of the claims: letters, digits, hyphen, underscore, at most 50.
MatchesPattern(s) ==
    /\ s # Undefined
    /\ Len(s) <= 50
    /\ \A i \in 1..Len(s) : s[i] \in Lower \cup Upper \cup Digits \cup {"-", "_"}

ReturnsExactly(p, code) ==
    /\ calls[p].result.success
    /\ Cardinality(calls[p].result.data) = 1
    /\ \A l \in calls[p].result.data : l.shortCode = code

C9_GeneratedCodeIsSixAlphanumerics ==
    \A p \in Calls :
        (Generated(p) /\ calls[p].pc = "done" /\ calls[p].result.success)
        => \A l \in calls[p].result.data :
              /\ Len(l.shortCode) = 6
              /\ \A i \in 1..Len(l.shortCode) : l.shortCode[i] \in Digits \cup Lower

\* C10: a createLink without a requested code returns AllocationExhausted
\* exactly when ten generated codes in a row were in the store at their
\* checks, and then it has written nothing; once a generated code is found
\* free the call goes on to the insert and never returns AllocationExhausted.
C10_ExhaustedAfterTenCollisions ==
    \A p \in Calls :
        Generated(p)
        => /\ calls[p].result = AllocationExhausted
                => /\ calls[p].collisions = 10
                   /\ calls[p].precheck = "held"
                   /\ calls[p].writes = 0
           /\ (calls[p].pc = "done" /\ calls[p].collisions = 10)
                => calls[p].result = AllocationExhausted
           /\ calls[p].collisions <= 10
           /\ calls[p].precheck = "free"
                => /\ calls[p].pc \in {"insert", "done"}
                   /\ calls[p].result # AllocationExhausted

\* A createLink whose ten generated codes were all in the store.
C10_Witness ==
    \E p \in Calls :
        /\ Generated(p) /\ Authenticated(p)
        /\ calls[p].result = AllocationExhausted
        /\ calls[p].collisions = 10
        /\ calls[p].storeOps = 10

\* ------------------------------------------------------- redirect claims

\* What the reader of a query string makes of a percent-encoded byte.
PercentByte(hi, lo) ==
    IF <<hi, lo>> = <<"2", "1">> THEN "!"
    ELSE IF <<hi, lo>> = <<"2", "5">> THEN "%"
    ELSE "?"

\* A query value as its reader decodes it.
RECURSIVE FormDecode(_)
FormDecode(s) ==
    IF s = <<>> THEN <<>>
    ELSE IF Head(s) = "+" THEN <<" ">> \o FormDecode(Tail(s))
    ELSE IF Head(s) = "%" /\ Len(s) >= 3
         THEN <<PercentByte(s[2], s[3])>> \o FormDecode(SubSeq(s, 4, Len(s)))
    ELSE <<Head(s)>> \o FormDecode(Tail(s))

\* The value of the query parameter "code", Undefined when the query has none.
CodeParam(query) ==
    IF Len(query) >= 5 /\ SubSeq(query, 1, 5) = <<"c", "o", "d", "e", "=">>
    THEN FormDecode(SubSeq(query, 6, Len(query)))
    ELSE Undefined

\* The step of call p in which the redirect route answers.
Resolves(p) ==
    /\ calls[p].pc = "idle"
    /\ calls'[p].kind = "resolve"
    /\ calls'[p].pc = "done"

AnswersNotFound(r, code) ==
    /\ r.status = 302
    /\ r.location = "/link-not-found"
    /\ CodeParam(r.query) = code

\* C12: the redirect route answers from the store as the last completed
\* mutation left it. Once an editLink that set code c2 and url u2 on a row has
\* returned success, and no other call has written since, resolving c2
\* redirects to u2 and resolving the code the row held before (when it was
\* changed) redirects to /link-not-found; once a deleteLink of a row has
\* returned success, resolving the code the row held redirects to
\* /link-not-found.
C12_ResolveReflectsMutation ==
    [][\A q \in Calls :
          Resolves(q)
          => \A p \in Calls \ {q} :
                ( /\ calls[p].pc = "done"
                  /\ calls[p].result.success
                  /\ calls[p].writes = 1
                  /\ \A o \in Calls \ {p, q} : calls[o].writes = 0 )
                => LET code == calls'[q].shortCode
                       r == calls'[q].response
                   IN  /\ (calls[p].kind = "edit" /\ code = calls[p].slug)
                            => r = [status |-> 302, location |-> calls[p].url,
                                    query |-> <<>>]
                       /\ ( /\ calls[p].kind = "edit"
                            /\ code = calls[p].prior
                            /\ calls[p].prior # calls[p].slug )
                            => AnswersNotFound(r, code)
                       /\ (calls[p].kind = "delete" /\ code = calls[p].prior)
                            => AnswersNotFound(r, code)]_vars

\* An editLink moved a row from one code to another, and a later call of the
\* redirect route for the old code was sent to /link-not-found.
C12_Witness ==
    \E p, q \in Calls :
        /\ calls[p].kind = "edit" /\ calls[p].pc = "done"
        /\ calls[p].result.success /\ calls[p].writes = 1
        /\ calls[p].prior = Code6 /\ calls[p].slug = Slug50
        /\ \E l \in links : l.id = calls[p].id /\ l.shortCode = Slug50
        /\ calls[q].kind = "resolve" /\ calls[q].pc = "done"
        /\ calls[q].shortCode = Code6
        /\ AnswersNotFound(calls[q].response, Code6)

\* ------------------------------------------------------- mutation claims

\* C13: a createLink that returns success added exactly one row in its insert:
\* the row is owned by the caller, holds the submitted url, has an id no row
\* of the store had, every row the store had is unchanged, and the row is the
\* data of the result.
C13_CreateAddsOneRecord ==
    [][\A p \in Calls :
          ( /\ calls[p].kind = "create"
            /\ calls[p].pc # "done"
            /\ calls'[p].pc = "done"
            /\ calls'[p].result.success )
          => \E r \in links' :
                /\ r \notin links
                /\ links' = links \cup {r}
                /\ \A l \in links : l.id # r.id
                /\ r.userId = calls[p].userId
                /\ r.url = calls[p].url
                /\ calls'[p].result.data = {r}]_vars

\* A createLink returned success on a store that held rows already: the store
\* holds them and the returned row.
C13_Witness ==
    \E p \in Calls :
        /\ calls[p].kind = "create" /\ calls[p].pc = "done"
        /\ calls[p].result.success
        /\ calls[p].userId = "u2" /\ calls[p].url = UrlA
        /\ SeededStore \subseteq links
        /\ calls[p].result.data \subseteq links
        /\ Cardinality(links) = Cardinality(SeededStore) + 1
        /\ \E r \in calls[p].result.data :
              /\ r.userId = "u2" /\ r.url = UrlA /\ r.id = 3

\* C14: an editLink that returns success on a row the store still holds sets
\* the row's url and short code to the submitted values and its updatedAt to
\* the time of the update, leaves its id, owner and createdAt as they were,
\* leaves every other row unchanged, and returns the updated row.
C14_EditChangesOnlyItsRecord ==
    [][\A p \in Calls :
          ( /\ calls[p].kind = "edit"
            /\ calls[p].pc = "update"
            /\ calls'[p].pc = "done"
            /\ calls'[p].result.success )
          => \A old \in links :
                old.id = calls[p].id
                => \E new \in links' :
                      /\ new.id = old.id
                      /\ new.url = calls[p].url
                      /\ new.shortCode = calls[p].slug
                      /\ new.updatedAt = clock'
                      /\ new.updatedAt >= old.updatedAt
                      /\ new.userId = old.userId
                      /\ new.createdAt = old.createdAt
                      /\ links' \ {new} = links \ {old}
                      /\ calls'[p].result.data = {new}]_vars

\* An editLink returned success after it gave a row a new url and short code
\* at a later time, next to a row it left alone.
C14_Witness ==
    \E p \in Calls :
        /\ calls[p].kind = "edit" /\ calls[p].pc = "done"
        /\ calls[p].result.success /\ calls[p].writes = 1
        /\ calls[p].id = 2 /\ calls[p].slug = Slug50 /\ calls[p].url = UrlA
        /\ \E new \in links :
              /\ new.id = 2 /\ new.userId = "u2"
              /\ new.shortCode = Slug50 /\ new.url = UrlA
              /\ new.updatedAt > new.createdAt
              /\ calls[p].result.data = {new}
        /\ \E l \in links \cap SeededStore : l.id = 1

\* The submitted short code is one the schema of the call's operation accepts.
SlugAccepted(p) ==
    IF calls[p].kind = "create"
    THEN calls[p].slug = Undefined \/ MatchesPattern(calls[p].slug)
    ELSE calls[p].slug # <<>> /\ MatchesPattern(calls[p].slug)

\* C15: a failure of createLink or editLink carries the field-keyed map of
\* validation messages exactly when a signed-in caller's input was invalid,
\* with an entry for the url exactly when the url is invalid and one for the
\* short code exactly when the short code is invalid; every other failure of
\* theirs, and every failure of deleteLink, carries a single message string.
C15_FailureShapes ==
    \A p \in Calls :
        ( /\ calls[p].kind \in {"create", "edit", "delete"}
          /\ calls[p].pc = "done"
          /\ ~calls[p].result.success )
        => LET e == calls[p].result.error
               badUrl == calls[p].url \notin ValidUrls
               badSlug == ~SlugAccepted(p)
           IN  /\ e.type \in {"string", "formatted"}
               /\ calls[p].kind = "delete" => e.type = "string"
               /\ calls[p].kind \in {"create", "edit"}
                    => (e.type = "formatted"
                          <=> (calls[p].userId \in Users /\ (badUrl \/ badSlug)))
               /\ e.type = "formatted"
                    => /\ e.message = ""
                       /\ e.url # <<>> <=> badUrl
                       /\ e.slug # <<>> <=> badSlug
               /\ e.type = "string"
                    => /\ e.message \in {"Unauthorized",
                            "Failed to generate a unique short code. Please try again.",
                            "That slug is already taken. Please choose a different one.",
                            "Failed to create link. Please try again.",
                            "Link not found.",
                            "Failed to update link. Please try again.",
                            "Failed to delete link. Please try again."}
                       /\ e.url = <<>> /\ e.slug = <<>>

\* A createLink failed validation on both fields and an editLink failed with a
\* message string.
C15_Witness ==
    \E p, q \in Calls :
        /\ calls[p].kind = "create" /\ calls[p].pc = "done"
        /\ calls[p].url = BadUrl /\ calls[p].slug = Slug51
        /\ calls[p].result.error.type = "formatted"
        /\ calls[p].result.error.url # <<>>
        /\ calls[p].result.error.slug # <<>>
        /\ calls[q].kind = "edit" /\ calls[q].pc = "done"
        /\ calls[q].userId \in Users
        /\ ~calls[q].result.success
        /\ calls[q].result.error.type = "string"
        /\ calls[q].result.error.message = "Link not found."

\* C16: a call of the redirect route, answered or thrown, leaves the store as
\* it was; and when no call has written to the store, two calls of the route
\* for the same code get the same answer.
C16_ResolveReadsOnly ==
    [][\A q \in Calls :
          (calls[q].pc = "idle" /\ calls'[q].kind = "resolve")
          => /\ links' = links
             /\ nextId' = nextId
             /\ clock' = clock
             /\ \A p \in Calls \ {q} :
                   ( /\ calls[p].kind = "resolve" /\ calls[p].pc = "done"
                     /\ calls'[q].pc = "done"
                     /\ calls[p].shortCode = calls'[q].shortCode
                     /\ \A o \in Calls : calls[o].writes = 0 )
                   => calls'[q].response = calls[p].response]_vars

\* The code of a stored row was resolved twice, to the same url, and the store
\* is as it was.
C16_Witness ==
    \E p, q \in Calls :
        /\ p # q
        /\ calls[p].kind = "resolve" /\ calls[p].pc = "done"
        /\ calls[q].kind = "resolve" /\ calls[q].pc = "done"
        /\ calls[p].shortCode = Code6 /\ calls[q].shortCode = Code6
        /\ calls[p].response.location = UrlB
        /\ calls[q].response.location = UrlB
        /\ links = SeededStore

\* C17 as written: a signed-in editLink on an id that is absent or owned by
\* another user fails with NotFound also when its url or short code is
\* invalid.
C17_NotFoundBeforeValidation ==
    \A p \in Calls :
        ( /\ calls[p].kind = "edit" /\ calls[p].pc = "done"
          /\ calls[p].userId \in Users
          /\ calls[p].atCall \in {"absent", "other"}
          /\ (calls[p].url \notin ValidUrls \/ ~SlugAccepted(p)) )
        => calls[p].result = NotFound

\* C17 amended: editLink validates before it checks existence and ownership.
\* A signed-in editLink with an invalid url or short code returns the
\* validation failure without a store operation, on an absent or foreign id
\* too; NotFound is returned only to a call whose input is valid, after its
\* load by id.
C17_ValidationBeforeLoad ==
    \A p \in Calls :
        (calls[p].kind = "edit" /\ calls[p].userId \in Users)
        => /\ (calls[p].url \notin ValidUrls \/ ~SlugAccepted(p))
                => /\ calls[p].pc = "done"
                   /\ calls[p].result.error.type = "formatted"
                   /\ calls[p].storeOps = 0
                   /\ calls[p].loaded = "none"
           /\ calls[p].result = NotFound
                => /\ calls[p].url \in ValidUrls /\ SlugAccepted(p)
                   /\ calls[p].storeOps = 1
                   /\ calls[p].loaded \in {"absent", "other"}

\* Two editLink calls with invalid input, one on an absent id and one on a
\* row of another user, both returned the validation failure.
C17_Witness ==
    \E p, q \in Calls :
        /\ calls[p].kind = "edit" /\ calls[p].pc = "done"
        /\ calls[p].userId \in Users /\ calls[p].atCall = "absent"
        /\ calls[p].url = BadUrl
        /\ calls[p].result.error.type = "formatted"
        /\ calls[q].kind = "edit" /\ calls[q].pc = "done"
        /\ calls[q].userId \in Users /\ calls[q].atCall = "other"
        /\ calls[q].slug = <<>>
        /\ calls[q].result.error.type = "formatted"
        /\ calls[q].storeOps = 0

\* ----------------------------------------------------- allocation claims

\* The rows of the store that hold a short code.
Holding(code) == {l \in links : l.shortCode = code}

\* C18: two createLink calls of signed-in callers that ask for the same valid
\* code, not in the store when each of them began, and that have both ended,
\* with no write by another call: at most one of them returned success and at
\* most one row holds the code; and when no store operation and no
\* revalidation of theirs failed, exactly one returned success and exactly one
\* row holds the code.
C18_ConcurrentCreatesSameCode ==
    \A p, q \in Calls :
        ( /\ p # q
          /\ Requested(p) /\ Requested(q)
          /\ calls[p].userId \in Users /\ calls[q].userId \in Users
          /\ calls[p].slug = calls[q].slug
          /\ MatchesPattern(calls[p].slug)
          /\ calls[p].url \in ValidUrls /\ calls[q].url \in ValidUrls
          /\ calls[p].atCall = "free" /\ calls[q].atCall = "free"
          /\ calls[p].pc \in {"done", "thrown"}
          /\ calls[q].pc \in {"done", "thrown"}
          /\ \A o \in Calls \ {p, q} : calls[o].writes = 0 )
        => /\ ~(calls[p].result.success /\ calls[q].result.success)
           /\ Cardinality(Holding(calls[p].slug)) <= 1
           /\ Cardinality(Holding(calls[p].slug)) = calls[p].writes + calls[q].writes
           /\ (~calls[p].faulted /\ ~calls[q].faulted)
                => /\ calls[p].result.success # calls[q].result.success
                   /\ Cardinality(Holding(calls[p].slug)) = 1

\* Both calls found the code free in their uniqueness check; one inserted it
\* and returned success, the insert of the other was rejected.
C18_Witness ==
    \E p, q \in Calls :
        /\ Requested(p) /\ Requested(q)
        /\ calls[p].slug = Slug50 /\ calls[q].slug = Slug50
        /\ calls[p].atCall = "free" /\ calls[q].atCall = "free"
        /\ calls[p].precheck = "free" /\ calls[q].precheck = "free"
        /\ calls[p].pc = "done" /\ calls[q].pc = "done"
        /\ calls[p].result.success /\ calls[p].writes = 1
        /\ ~calls[q].result.success /\ calls[q].conflict /\ calls[q].writes = 0
        /\ Cardinality(Holding(Slug50)) = 1
        /\ calls[p].result.data = Holding(Slug50)

\* C19: the generation loop of createLink is bounded by its attempt counter.
\* Every pass generates one code and counts one attempt, and every uniqueness
\* check belongs to one pass: while the call is in the loop its store
\* operations are its checks, as many as the attempts that were checked, and
\* never more than 10; it leaves the loop for the insert after at most 10
\* checks, and it fails with the allocation failure on the 11th attempt, after
\* exactly 10 checks and without checking the 11th code.
C19_GenerationLoopBounded ==
    \A p \in Calls :
        (Generated(p) /\ calls[p].attempts >= 1)
        => /\ calls[p].attempts <= 11
           /\ calls[p].pc = "checkGenerated"
                => calls[p].attempts <= 10 /\ calls[p].storeOps = calls[p].attempts - 1
           /\ calls[p].pc \in {"generate", "insert", "thrown"}
                => calls[p].attempts <= 10 /\ calls[p].storeOps = calls[p].attempts
           /\ calls[p].pc = "done"
                => IF calls[p].result = AllocationExhausted
                   THEN calls[p].attempts = 11 /\ calls[p].storeOps = 10
                   ELSE calls[p].attempts <= 10
                        /\ calls[p].storeOps = calls[p].attempts + 1
           /\ calls[p].pc \in {"generate", "checkGenerated", "insert", "done", "thrown"}

\* A createLink whose tenth generated code was the first one not in the store
\* has inserted it.
C19_Witness ==
    \E p \in Calls :
        /\ Generated(p) /\ calls[p].pc = "done"
        /\ calls[p].attempts = 10
        /\ calls[p].collisions = 9
        /\ calls[p].storeOps = 11
        /\ calls[p].result.success
        /\ \E l \in calls[p].result.data : l \in links /\ l.shortCode = calls[p].shortCode

C21_FailureLeavesStore ==
    \A p \in Calls :
        ( /\ calls[p].kind \in {"create", "edit", "delete"}
          /\ calls[p].pc = "done"
          /\ ~calls[p].result.success )
        => calls[p].writes = 0

\* C22: when editLink returns success, the data of the result is a row, the
\* row is in the store, and it holds the id, the url and the short code that
\* were submitted, also when the row was deleted between the call's load by
\* id and its update.
C22_EditSuccessReturnsStoredRow ==
    [][\A p \in Calls :
          ( /\ calls[p].kind = "edit"
            /\ calls[p].pc = "update"
            /\ calls'[p].pc = "done"
            /\ calls'[p].result.success )
          => \E l \in links' :
                /\ calls'[p].result.data = {l}
                /\ l.id = calls[p].id
                /\ l.url = calls[p].url
                /\ l.shortCode = calls[p].slug]_vars

\* C23: of the deleteLink calls for one id at most one returns success, also
\* when two of them run concurrently.
C23_OneDeleteSucceeds ==
    \A p, q \in Calls :
        ( /\ p # q
          /\ calls[p].kind = "delete" /\ calls[q].kind = "delete"
          /\ calls[p].id = calls[q].id
          /\ calls[p].pc = "done" /\ calls[q].pc = "done" )
        => ~(calls[p].result.success /\ calls[q].result.success)

\* C24: every row a step puts into the store, by an insert or by an update,
\* has a shortCode that is non-empty, at most 50 characters long and made of
\* letters, digits, hyphen and underscore only, whether the code was asked
\* for at create, generated, or set by edit.
C24_StoredCodesWellFormed ==
    [][\A l \in links' \ links :
          /\ l.shortCode # <<>>
          /\ MatchesPattern(l.shortCode)]_vars

====
